---- MODULE Spec2Model ----
(***************************************************************************)
(* A model of McpClientPool (src/mcp-client.ts): the session registry, the *)
(* token cache, the transports the pool builds, and every asynchronous     *)
(* operation of the pool as a task that suspends at its awaits.            *)
(***************************************************************************)
EXTENDS Integers, Sequences, FiniteSets, TLC

\* ------------------------------------------------------------------ bounds
MaxTransports == 4      \* transports the pool may build in one behaviour
MaxCalls == 2           \* calls of the pool's methods in one behaviour
MaxTicks == 1           \* clock ticks in one behaviour
TickMs == 1000          \* milliseconds Date.now() advances by per tick
MaxLines == 3           \* lines of a refresh-command output (SpecExtract)

\* --------------------------------------------------------------- configs
\* ServerConfig (src/config.ts): only the fields the pool's control flow reads.
\* authTokenTtlSeconds is <<>> when undefined and <<n>> when configured.
Servers == {"auth", "plain", "proc"}

\* The servers of one configuration file (parseConfig's servers).
Deployments == { {"auth", "proc"}, {"plain", "proc"} }

ServerConfigs ==
  [ auth  |-> [name |-> "auth",  transport |-> "http",  authTokenCommand |-> TRUE,
               authTokenTtlSeconds |-> <<0>>],
    plain |-> [name |-> "plain", transport |-> "http",  authTokenCommand |-> FALSE,
               authTokenTtlSeconds |-> <<>>],
    proc  |-> [name |-> "proc",  transport |-> "stdio", authTokenCommand |-> TRUE,
               authTokenTtlSeconds |-> <<>>] ]

Max(a, b) == IF a >= b THEN a ELSE b
Range(f) == {f[i] : i \in DOMAIN f}
IndexOf(seq, x) == CHOOSE i \in 1..Len(seq) : seq[i] = x

\* A variant that forgets the transport kind.
usesAnyTokenCommand(config) == config.authTokenCommand

usesAuthTokenCommand(config) ==
  config.transport = "http" /\ config.authTokenCommand

getTokenTtlMs(config) ==
  LET ttlSeconds == IF config.authTokenTtlSeconds = <<>> THEN 2700
                    ELSE config.authTokenTtlSeconds[1]
  IN  Max(1, ttlSeconds) * 1000

\* ------------------------------------------------------- error messages
\* String(err) is modelled as the set of fragments the text contains;
\* msg.includes(x) is membership, toLowerCase() maps every fragment.
ErrFragments == {"UNAUTHORIZED", "401", "closed", "CLOSED", "EPIPE", "tool failed"}

ToLower ==
  [f \in ErrFragments |->
     CASE f = "UNAUTHORIZED" -> "unauthorized"
       [] f = "CLOSED"       -> "closed"
       [] f = "EPIPE"        -> "epipe"
       [] OTHER              -> f]

toLowerCase(msg) == {ToLower[f] : f \in msg}

isConnectionError(msg) ==
  "closed" \in msg \/ "ECONNREFUSED" \in msg \/ "EPIPE" \in msg

isAuthError(msg) ==
  LET m == toLowerCase(msg)
  IN  \/ "invalid_token" \in m
      \/ "unauthorized" \in m
      \/ "401" \in m
      \/ "authentication" \in m
      \/ "access token" \in m

\* The failures a session operation may raise: auth-classified only (the
\* upper-case CLOSED is no connection error), connection-classified only,
\* both, neither.
ErrMsgs == { {"UNAUTHORIZED", "CLOSED"}, {"closed"}, {"401", "EPIPE"}, {"tool failed"} }

\* The failures of a session establishment (connect reads only the auth
\* class) and of a retried operation (never classified).
ConnectErrMsgs == { {"UNAUTHORIZED", "CLOSED"}, {"closed"} }
RetryErrMsgs == { {"401", "EPIPE"}, {"tool failed"} }

\* ------------------------------------------------------ token extraction
\* A line of the command's output is a sequence of lexemes (white space
\* between them dropped); the empty sequence is a blank line.
Lex(t, k, s, v) == [t |-> t, k |-> k, s |-> s, v |-> v]
LB == Lex("lb", "", FALSE, "")
RB == Lex("rb", "", FALSE, "")
Comma == Lex("comma", "", FALSE, "")
Null == Lex("null", "", FALSE, "")
Word(v) == Lex("word", "", TRUE, v)
StrPair(k, v) == Lex("pair", k, TRUE, v)
NumPair(k, v) == Lex("pair", k, FALSE, v)

TokenKeys == <<"access_token", "token", "bearer">>

RECURSIVE Flatten(_)
Flatten(ls) == IF ls = <<>> THEN <<>> ELSE Head(ls) \o Flatten(Tail(ls))

IsBlank(line) == line = <<>>

\* String.prototype.trim on the whole output: leading and trailing blank
\* lines go.
RECURSIVE TrimFront(_)
TrimFront(ls) ==
  IF ls # <<>> /\ IsBlank(Head(ls)) THEN TrimFront(Tail(ls)) ELSE ls

RECURSIVE TrimBack(_)
TrimBack(ls) ==
  IF ls # <<>> /\ IsBlank(ls[Len(ls)]) THEN TrimBack(SubSeq(ls, 1, Len(ls) - 1))
  ELSE ls

Trim(ls) == TrimBack(TrimFront(ls))

\* JSON.parse of a lexeme sequence: "object" with its members, "null", or
\* "error" (a SyntaxError).
IsObjectText(lx) ==
  /\ Len(lx) >= 2
  /\ lx[1].t = "lb"
  /\ lx[Len(lx)].t = "rb"
  /\ \/ Len(lx) = 2
     \/ /\ Len(lx) % 2 = 1
        /\ \A i \in 2..(Len(lx) - 1) :
             IF i % 2 = 0 THEN lx[i].t = "pair" ELSE lx[i].t = "comma"

JsonParse(lx) ==
  IF IsObjectText(lx) THEN [kind |-> "object", members |-> SubSeq(lx, 2, Len(lx) - 1)]
  ELSE IF Len(lx) = 1 /\ lx[1].t = "null" THEN [kind |-> "null", members |-> <<>>]
  ELSE [kind |-> "error", members |-> <<>>]

\* parsed[k]: the member of the last pair with key k (JSON.parse keeps the
\* last duplicate); <<>> when there is none (undefined).
Member(parsed, k) ==
  LET idx == {i \in 1..Len(parsed.members) :
                parsed.members[i].t = "pair" /\ parsed.members[i].k = k}
  IN  IF idx = {} THEN <<>>
      ELSE <<parsed.members[CHOOSE i \in idx : \A j \in idx : j <= i]>>

\* (typeof parsed.access_token === "string" && parsed.access_token) || ...
\* <<>> stands for a falsy result.  Reading a property of null throws, and
\* the throw is caught with the SyntaxError.
StringField(parsed, k) ==
  LET m == Member(parsed, k)
  IN  IF m # <<>> /\ m[1].s /\ m[1].v # "" THEN <<Word(m[1].v)>> ELSE <<>>

fromJson(lx) ==
  LET parsed == JsonParse(lx)
  IN  IF parsed.kind # "object" THEN <<>>
      ELSE IF StringField(parsed, TokenKeys[1]) # <<>> THEN StringField(parsed, TokenKeys[1])
      ELSE IF StringField(parsed, TokenKeys[2]) # <<>> THEN StringField(parsed, TokenKeys[2])
      ELSE StringField(parsed, TokenKeys[3])

\* A variant that scans from the first line.
RECURSIVE ScanForward(_)
ScanForward(lines) ==
  IF lines = <<>> THEN <<>>
  ELSE IF fromJson(Head(lines)) # <<>> THEN fromJson(Head(lines))
  ELSE ScanForward(Tail(lines))

\* for (const candidate of [...lines].reverse()) ...
RECURSIVE ScanReverse(_)
ScanReverse(lines) ==
  IF lines = <<>> THEN <<>>
  ELSE IF fromJson(lines[Len(lines)]) # <<>> THEN fromJson(lines[Len(lines)])
  ELSE ScanReverse(SubSeq(lines, 1, Len(lines) - 1))

\* extractToken(raw): the token (a line), or <<>> for null.
extractToken(raw) ==
  LET lines == SelectSeq(raw, LAMBDA l : ~IsBlank(l))
  IN  IF ScanReverse(lines) # <<>> THEN ScanReverse(lines)
      ELSE IF fromJson(Flatten(raw)) # <<>> THEN fromJson(Flatten(raw))
      ELSE IF lines = <<>> THEN <<>>
      ELSE lines[Len(lines)]

\* The execFile callback of runTokenCommand on a zero exit: the promise's
\* outcome for the given standard output.
tokenCallback(stdout) ==
  LET raw == Trim(stdout)
  IN  IF raw = <<>> THEN [ok |-> FALSE, token |-> <<>>, error |-> "empty output"]
      ELSE IF extractToken(raw) = <<>>
        THEN [ok |-> FALSE, token |-> <<>>, error |-> "no usable token"]
      ELSE [ok |-> TRUE, token |-> extractToken(raw), error |-> ""]

\* The outputs the refresh command produces in the pool's behaviours.
TokenOutputs ==
  { << <<Word("noise")>>, <<LB, StrPair("token", "T"), RB>>, <<>> >>,
    << <<>> >> }

\* ------------------------------------------------------------------ state
Tasks == {"t1", "t2"}
Tids == 1..MaxTransports
NoEntry == 0

VARIABLES
  clients,     \* Map<string, ClientEntry>: server name -> the entry's id, or NoEntry
  order,       \* the keys of clients in the Map's insertion order
  heap,        \* the transports built, each with the entry object made for it
  tokenCache,  \* Map<string, TokenCacheEntry>: <<>> or <<[token, fetchedAtMs]>>
  now,         \* Date.now()
  task,        \* the pool's asynchronous calls in flight, one per caller
  calls,       \* how many calls the callers have made
  servers,     \* the names of the configured servers
  pin,         \* SpecExtract: the standard output handed to the callback
  pout         \* SpecExtract: <<>> or <<the callback's outcome>>

vars == <<clients, order, heap, tokenCache, now, task, calls, servers, pin, pout>>

\* A transport and, once its session is established, the ClientEntry that
\* holds it (`connected` is the entry's flag).
NoTransport ==
  [built |-> FALSE, srv |-> "", est |-> FALSE, hooks |-> FALSE,
   closeCalled |-> FALSE, connected |-> FALSE]

\* A call: its position (pc), its locals (name, entry, tr, force, attempt,
\* nowAt, it), its outcome (res, origin, err) and what it has done so far:
\* the first failure (err1) and the health flag read then (unhealthy), the
\* session operations and reconnects started (nOps, nReconn), the entry of
\* the retried operation (target), the credential fetches started (nFetch);
\* while a session is being established, the token of its header (tok) and
\* whether the cache gave it (hit); whether a close just awaited threw.
IdleTask ==
  [op |-> "none", name |-> "", pc |-> "idle", entry |-> NoEntry, tr |-> NoEntry,
   force |-> FALSE, attempt |-> 0, nowAt |-> 0, it |-> 0,
   res |-> "", origin |-> "", err |-> {},
   err1 |-> <<>>, unhealthy |-> FALSE, nOps |-> 0, nReconn |-> 0,
   target |-> NoEntry, nFetch |-> 0, hit |-> FALSE, tok |-> <<>>,
   threw |-> FALSE, alone |-> FALSE, snap |-> {}]

\* The pool as constructed: both maps empty.
Constructed ==
  /\ clients = [s \in Servers |-> NoEntry]
  /\ order = <<>>
  /\ heap = [i \in Tids |-> NoTransport]
  /\ tokenCache = [s \in Servers |-> <<>>]

\* The pool once start-up has connected every configured server, each at
\* its first attempt: what connect leaves behind, server after server.
StartupOrder == <<"auth", "plain", "proc">>
StartupToken == <<Word("A")>>
SlotOf(s, d) == Cardinality({i \in 1..Len(StartupOrder) :
                              StartupOrder[i] \in d /\ i <= IndexOf(StartupOrder, s)})
Started ==
  /\ clients = [s \in Servers |-> IF s \in servers THEN SlotOf(s, servers) ELSE NoEntry]
  /\ order = SelectSeq(StartupOrder, LAMBDA s : s \in servers)
  /\ heap = [i \in Tids |->
               IF \E s \in servers : SlotOf(s, servers) = i
               THEN LET s == CHOOSE s \in servers : SlotOf(s, servers) = i
                    IN  [NoTransport EXCEPT !.built = TRUE, !.srv = s, !.est = TRUE,
                                            !.connected = TRUE,
                                            !.hooks = (ServerConfigs[s].transport = "stdio")]
               ELSE NoTransport]
  /\ tokenCache = [s \in Servers |->
                     IF s \in servers /\ usesAuthTokenCommand(ServerConfigs[s])
                     THEN <<[token |-> StartupToken, fetchedAtMs |-> 0]>> ELSE <<>>]

Init ==
  /\ servers \in Deployments
  /\ IF "auth" \in servers THEN Constructed ELSE Started
  /\ now = 0
  /\ task = [t \in Tasks |-> IdleTask]
  /\ calls = 0
  /\ pin = <<>>
  /\ pout = <<>>

Free(t) == task[t].pc = "idle"
Running(rec) == rec.pc # "idle"

\* A call that completed hands its outcome to its caller before anything
\* else happens (Return).
Settled == \A u \in Tasks : task[u].pc # "done"

\* A caller may start a call.  The second caller only overlaps the first,
\* and on the same server or with a closeAll: calls on different names
\* work on different keys of the registry and of the cache.
MayStart(t, op, s) ==
  /\ Settled
  /\ Free(t)
  /\ calls < MaxCalls
  /\ t = "t2" => /\ ~Free("t1")
                 /\ op = "closeAll" \/ task["t1"].op = "closeAll" \/ task["t1"].name = s

\* The slot of the next transport object.
FreeTids == {i \in Tids : ~heap[i].built}
CanBuild == FreeTids # {}
nextTid == CHOOSE i \in FreeTids : \A j \in FreeTids : i <= j

\* The transports some reference can still reach.  A transport nothing refers
\* to and whose hooks are not set can take no further part in the pool's
\* behaviour (nothing can close it any more): its slot is reused.
Referenced(cl, tk) ==
  UNION { {cl[s]} : s \in Servers }
    \cup UNION { {tk[u].entry, tk[u].tr, tk[u].target} \cup tk[u].snap
                 : u \in Tasks }

Collect(h, cl, tk) ==
  [i \in Tids |->
     IF h[i].built /\ ~h[i].hooks /\ i \notin Referenced(cl, tk)
     THEN NoTransport ELSE h[i]]

\* ------------------------------------------------------ registry helpers

\* this.clients.set(name, entry): an existing key keeps its place in the
\* Map's order, a new key goes to the end.
MapSetOrder(name) == IF name \in Range(order) THEN order ELSE Append(order, name)

\* this.clients.delete(name)
MapDeleteOrder(name) == SelectSeq(order, LAMBDA k : k # name)

\* A live Map iterator (closeAll's for..of) keeps its place when a key
\* before it is deleted: `it` counts the live keys it has passed.
ShiftIterators(tk, name) ==
  IF name \notin Range(order) THEN tk
  ELSE [u \in Tasks |->
          IF tk[u].op = "closeAll" /\ Running(tk[u]) /\ tk[u].it >= IndexOf(order, name)
          THEN [tk[u] EXCEPT !.it = @ - 1] ELSE tk[u]]

\* Another call starting while a closeAll is in flight.
Disturb(tk, t) ==
  [u \in Tasks |->
     IF u # t /\ tk[u].op = "closeAll" /\ Running(tk[u])
     THEN [tk[u] EXCEPT !.alone = FALSE] ELSE tk[u]]

Done(rec) == [rec EXCEPT !.pc = "done", !.res = "ok"]
Throws(rec, origin, msg) ==
  [rec EXCEPT !.pc = "done", !.res = "err", !.origin = origin, !.err = msg]

\* One step of the pool: the registry, the heap and the calls after it.
Step(cl, ord, h, tk) ==
  /\ clients' = cl
  /\ order' = ord
  /\ task' = tk
  /\ heap' = Collect(h, cl, tk)

\* ---------------------------------------------------- credential fetch
\* A variant of the cache test that forgets forceRefresh.
CacheHitWhenFresh(config, forceRefresh) ==
  LET cache == tokenCache[config.name]
  IN  /\ cache # <<>>
      /\ now - cache[1].fetchedAtMs < getTokenTtlMs(config)

\* getAuthToken's cache test.
CacheHit(config, forceRefresh) ==
  LET cache == tokenCache[config.name]
  IN  /\ ~forceRefresh
      /\ cache # <<>>
      /\ now - cache[1].fetchedAtMs < getTokenTtlMs(config)

NewTransport(config) == [NoTransport EXCEPT !.built = TRUE, !.srv = config.name]

\* createTransport(config, options) up to its first suspension: for an http
\* server with a refresh command, buildHttpHeaders calls getAuthToken, which
\* answers from the cache or starts the command; the transport is built
\* once the headers are there.  The outcome is the caller's record and the
\* heap.
createTransport(rec, h, config, forceRefresh) ==
  IF usesAuthTokenCommand(config)
  THEN IF CacheHit(config, forceRefresh)
       THEN [rec  |-> [rec EXCEPT !.pc = "establish", !.tr = nextTid, !.nFetch = @ + 1,
                                  !.hit = TRUE,
                                  !.tok = tokenCache[config.name][1].token],
             heap |-> [h EXCEPT ![nextTid] = NewTransport(config)]]
       ELSE [rec  |-> [rec EXCEPT !.pc = "tokencmd", !.tr = NoEntry, !.nowAt = now,
                                  !.nFetch = @ + 1],
             heap |-> h]
  ELSE [rec  |-> [rec EXCEPT !.pc = "establish", !.tr = nextTid],
        heap |-> [h EXCEPT ![nextTid] = NewTransport(config)]]

\* ------------------------------------------------------------- connect
\* connect(config) as the plugin calls it (no options).
StartConnect(t, s) ==
  /\ MayStart(t, "connect", s)
  /\ CanBuild
  /\ calls' = calls + 1
  /\ LET rec0 == [IdleTask EXCEPT !.op = "connect", !.name = s, !.attempt = 1]
         r == createTransport(rec0, heap, ServerConfigs[s], FALSE)
     IN  Step(clients, order, r.heap, Disturb([task EXCEPT ![t] = r.rec], t))
  /\ UNCHANGED <<tokenCache, now, servers, pin, pout>>

\* execFile's callback with err set: the fetch fails and, with it, the
\* createTransport and the connect that awaited it.
TokenCmdFail(t) ==
  /\ Settled
  /\ task[t].pc = "tokencmd"
  /\ Step(clients, order, heap,
          [task EXCEPT ![t] = Throws([@ EXCEPT !.threw = FALSE], "tokencmd",
                                     {"token command failed"})])
  /\ UNCHANGED <<tokenCache, now, calls, servers, pin, pout>>

\* execFile's callback on a zero exit; on a token getAuthToken stores it
\* under the time it read before the command ran.
TokenCmdExit(t, stdout) ==
  /\ Settled
  /\ task[t].pc = "tokencmd"
  /\ LET rec == [task[t] EXCEPT !.threw = FALSE]
         config == ServerConfigs[rec.name]
         r == tokenCallback(stdout)
     IN  IF r.ok
         THEN /\ CanBuild
              /\ tokenCache' = [tokenCache EXCEPT ![rec.name] =
                                  <<[token |-> r.token, fetchedAtMs |-> rec.nowAt]>>]
              /\ Step(clients, order,
                      [heap EXCEPT ![nextTid] = NewTransport(config)],
                      [task EXCEPT ![t] = [rec EXCEPT !.pc = "establish", !.tr = nextTid,
                                                      !.tok = r.token]])
         ELSE /\ Step(clients, order, heap,
                      [task EXCEPT ![t] = Throws(rec, "tokencmd", {r.error})])
              /\ UNCHANGED tokenCache
  /\ UNCHANGED <<now, calls, servers, pin, pout>>

\* client.connect(transport) settled: the call's notes about the build go.
Established(rec) == [rec EXCEPT !.tok = <<>>, !.hit = FALSE, !.threw = FALSE]

\* A variant of connect that closes the transport of the entry it overwrites.
EstablishOkClosingDisplaced(t) ==
  /\ Settled
  /\ task[t].pc = "establish"
  /\ LET rec == Established(task[t])
         config == ServerConfigs[rec.name]
         old == clients[rec.name]
         h == IF old # NoEntry THEN [heap EXCEPT ![old].closeCalled = TRUE] ELSE heap
     IN  Step([clients EXCEPT ![rec.name] = rec.tr],
              MapSetOrder(rec.name),
              [h EXCEPT ![rec.tr] =
                 [@ EXCEPT !.est = TRUE, !.connected = TRUE,
                           !.hooks = (config.transport = "stdio")]],
              [task EXCEPT ![t] = IF rec.op = "connect" THEN Done(rec)
                                  ELSE [rec EXCEPT !.pc = "relookup"]])
  /\ UNCHANGED <<tokenCache, now, calls, servers, pin, pout>>

\* client.connect(transport) resolved: hooks on a subprocess transport, then
\* the registry entry.  A connect inside a reconnect returns to the
\* listTools/callTool that awaits it.
EstablishOk(t) ==
  /\ Settled
  /\ task[t].pc = "establish"
  /\ LET rec == Established(task[t])
         config == ServerConfigs[rec.name]
     IN  Step([clients EXCEPT ![rec.name] = rec.tr],
              MapSetOrder(rec.name),
              [heap EXCEPT ![rec.tr] =
                 [@ EXCEPT !.est = TRUE, !.connected = TRUE,
                           !.hooks = (config.transport = "stdio")]],
              [task EXCEPT ![t] = IF rec.op = "connect" THEN Done(rec)
                                  ELSE [rec EXCEPT !.pc = "relookup"]])
  /\ UNCHANGED <<tokenCache, now, calls, servers, pin, pout>>

\* A variant of the catch's test that retries after any failure.
RetriesConnectAnyFailure(config, msg, forceRefreshToken) ==
  usesAuthTokenCommand(config) /\ ~forceRefreshToken

\* The catch of connect: a second attempt or the failure.
RetriesConnect(config, msg, forceRefreshToken) ==
  usesAuthTokenCommand(config) /\ isAuthError(msg) /\ ~forceRefreshToken

EstablishFail(t, msg) ==
  /\ Settled
  /\ task[t].pc = "establish"
  /\ LET rec == Established(task[t])
         config == ServerConfigs[rec.name]
     IN  IF rec.attempt = 1 /\ RetriesConnect(config, msg, rec.force)
         THEN Step(clients, order,
                   [heap EXCEPT ![rec.tr].closeCalled = TRUE],
                   [task EXCEPT ![t] = [rec EXCEPT !.pc = "retryclose", !.err = msg]])
         ELSE Step(clients, order, heap,
                   [task EXCEPT ![t] = Throws(rec, "establish", msg)])
  /\ UNCHANGED <<tokenCache, now, calls, servers, pin, pout>>

\* transport.close() of the failed first attempt returned or threw (ignored):
\* createTransport(config, { forceRefreshToken: true }).
RetryCloseDone(t, threw) ==
  /\ Settled
  /\ task[t].pc = "retryclose"
  /\ CanBuild
  /\ LET rec == [task[t] EXCEPT !.attempt = 2, !.threw = threw]
         r == createTransport(rec, heap, ServerConfigs[rec.name], TRUE)
     IN  Step(clients, order, r.heap, [task EXCEPT ![t] = r.rec])
  /\ UNCHANGED <<tokenCache, now, calls, servers, pin, pout>>

\* A variant that tries a reconnect for a name it does not know.
startToolReconnecting(t, s) ==
  /\ MayStart(t, "tool", s)
  /\ calls' = calls + 1
  /\ LET rec0 == [IdleTask EXCEPT !.op = "tool", !.name = s]
     IN  Step(clients, order, heap,
              Disturb([task EXCEPT ![t] =
                 IF clients[s] = NoEntry
                 THEN [rec0 EXCEPT !.pc = "relookup", !.nReconn = 1]
                 ELSE [rec0 EXCEPT !.pc = "op1", !.entry = clients[s], !.nOps = 1]], t))
  /\ UNCHANGED <<tokenCache, now, servers, pin, pout>>

\* --------------------------------------------------- listTools / callTool
\* listTools and callTool are the same code around two session operations
\* that the pool treats alike (a promise that resolves or rejects), so both
\* run as a "tool" call.
\* const entry = this.clients.get(serverName); if (!entry) throw ...;
\* then the session operation on entry.client.
startTool(t, s) ==
  /\ MayStart(t, "tool", s)
  /\ calls' = calls + 1
  /\ LET rec0 == [IdleTask EXCEPT !.op = "tool", !.name = s]
     IN  Step(clients, order, heap,
              Disturb([task EXCEPT ![t] =
                 IF clients[s] = NoEntry
                 THEN Throws(rec0, "unknown", {"Unknown server"})
                 ELSE [rec0 EXCEPT !.pc = "op1", !.entry = clients[s], !.nOps = 1]], t))
  /\ UNCHANGED <<tokenCache, now, servers, pin, pout>>

StartListTools(t, s) == startTool(t, s)

StartCallTool(t, s) == startTool(t, s)

Op1Ok(t) ==
  /\ Settled
  /\ task[t].pc = "op1"
  /\ Step(clients, order, heap, [task EXCEPT ![t] = Done(@)])
  /\ UNCHANGED <<tokenCache, now, calls, servers, pin, pout>>

\* Variants of the catch: the connection test first; a reconnect for any
\* failure.
RecoveryPathConnFirst(config, msg, connected) ==
  IF ~connected \/ isConnectionError(msg) THEN "plain"
  ELSE IF usesAuthTokenCommand(config) /\ isAuthError(msg) THEN "forced"
  ELSE "throw"

RecoveryPathAlways(config, msg, connected) ==
  IF usesAuthTokenCommand(config) /\ isAuthError(msg) THEN "forced" ELSE "plain"

\* The catch of listTools/callTool: which recovery the failure gets.
RecoveryPath(config, msg, connected) ==
  IF usesAuthTokenCommand(config) /\ isAuthError(msg) THEN "forced"
  ELSE IF ~connected \/ isConnectionError(msg) THEN "plain"
  ELSE "throw"

\* reconnect(serverName, options) up to its first suspension: nothing
\* without an entry, else the close of the entry's transport.
reconnect(rec, h, forceRefresh) ==
  LET rec1 == [rec EXCEPT !.nReconn = @ + 1, !.force = forceRefresh]
      entry == clients[rec.name]
  IN  IF entry = NoEntry
      THEN [rec |-> [rec1 EXCEPT !.pc = "relookup"], heap |-> h]
      ELSE [rec  |-> [rec1 EXCEPT !.pc = "rcclose", !.tr = entry],
            heap |-> [h EXCEPT ![entry].closeCalled = TRUE]]

Op1Fail(t, msg) ==
  /\ Settled
  /\ task[t].pc = "op1"
  /\ LET rec == [task[t] EXCEPT !.err1 = <<msg>>,
                                !.unhealthy = ~heap[task[t].entry].connected]
         path == RecoveryPath(ServerConfigs[heap[rec.entry].srv], msg,
                              heap[rec.entry].connected)
         r == reconnect(rec, heap, path = "forced")
     IN  IF path = "throw"
         THEN Step(clients, order, heap, [task EXCEPT ![t] = Throws(rec, "op1", msg)])
         ELSE Step(clients, order, r.heap, [task EXCEPT ![t] = r.rec])
  /\ UNCHANGED <<tokenCache, now, calls, servers, pin, pout>>

\* A variant of reconnect that lets the old transport's close failure out.
RcCloseDoneRaising(t, threw) ==
  /\ Settled
  /\ task[t].pc = "rcclose"
  /\ CanBuild
  /\ LET rec == [task[t] EXCEPT !.attempt = 1, !.threw = threw]
         r == createTransport(rec, heap, ServerConfigs[heap[rec.tr].srv], rec.force)
     IN  IF threw
         THEN Step(clients, order, heap,
                   [task EXCEPT ![t] = Throws(rec, "close", {"close failed"})])
         ELSE Step(clients, order, r.heap, [task EXCEPT ![t] = r.rec])
  /\ UNCHANGED <<tokenCache, now, calls, servers, pin, pout>>

\* The old transport's close returned or threw (ignored):
\* connect(entry.config, options).
RcCloseDone(t, threw) ==
  /\ Settled
  /\ task[t].pc = "rcclose"
  /\ CanBuild
  /\ LET rec == [task[t] EXCEPT !.attempt = 1, !.threw = threw]
         r == createTransport(rec, heap, ServerConfigs[heap[rec.tr].srv], rec.force)
     IN  Step(clients, order, r.heap, [task EXCEPT ![t] = r.rec])
  /\ UNCHANGED <<tokenCache, now, calls, servers, pin, pout>>

\* A variant that runs the retried operation inside the try block again.
RelookupRestarts(t) ==
  /\ Settled
  /\ task[t].pc = "relookup"
  /\ LET rec == task[t]
         refreshed == clients[rec.name]
     IN  Step(clients, order, heap,
              [task EXCEPT ![t] =
                 IF refreshed = NoEntry
                 THEN Throws(rec, "typeerror", {"Cannot read properties of undefined"})
                 ELSE [rec EXCEPT !.pc = "op1", !.entry = refreshed, !.nOps = @ + 1]])
  /\ UNCHANGED <<tokenCache, now, calls, servers, pin, pout>>

\* After the awaited reconnect: const refreshed = this.clients.get(name)!;
\* refreshed.client.<op>(...).  Without an entry the property read throws a
\* TypeError.
Relookup(t) ==
  /\ Settled
  /\ task[t].pc = "relookup"
  /\ LET rec == task[t]
         refreshed == clients[rec.name]
     IN  Step(clients, order, heap,
              [task EXCEPT ![t] =
                 IF refreshed = NoEntry
                 THEN Throws(rec, "typeerror", {"Cannot read properties of undefined"})
                 ELSE [rec EXCEPT !.pc = "op2", !.target = refreshed, !.nOps = @ + 1]])
  /\ UNCHANGED <<tokenCache, now, calls, servers, pin, pout>>

Op2Ok(t) ==
  /\ Settled
  /\ task[t].pc = "op2"
  /\ Step(clients, order, heap, [task EXCEPT ![t] = Done(@)])
  /\ UNCHANGED <<tokenCache, now, calls, servers, pin, pout>>

\* A variant that recovers from the retried operation's failure as from the
\* first one's.
Op2FailRecovers(t, msg) ==
  /\ Settled
  /\ task[t].pc = "op2"
  /\ LET rec == task[t]
         entry == clients[rec.name]
     IN  IF entry = NoEntry
         THEN Step(clients, order, heap, [task EXCEPT ![t] = Throws(rec, "op2", msg)])
         ELSE Step(clients, order,
                   [heap EXCEPT ![entry].closeCalled = TRUE],
                   [task EXCEPT ![t] = [rec EXCEPT !.pc = "rcclose", !.tr = entry,
                                                   !.nReconn = @ + 1]])
  /\ UNCHANGED <<tokenCache, now, calls, servers, pin, pout>>

Op2Fail(t, msg) ==
  /\ Settled
  /\ task[t].pc = "op2"
  /\ Step(clients, order, heap, [task EXCEPT ![t] = Throws(@, "op2", msg)])
  /\ UNCHANGED <<tokenCache, now, calls, servers, pin, pout>>

\* ------------------------------------------------------ close / closeAll
\* close(serverName) up to its suspension; `after` is where its caller goes
\* on when there is no entry.
close(rec, h, s, after) ==
  IF clients[s] = NoEntry
  THEN [rec |-> IF after = "done" THEN Done(rec) ELSE [rec EXCEPT !.pc = after],
        heap |-> h]
  ELSE [rec  |-> [rec EXCEPT !.pc = IF after = "done" THEN "closing" ELSE "caclosing",
                             !.name = s, !.entry = clients[s]],
        heap |-> [h EXCEPT ![clients[s]].closeCalled = TRUE]]

StartClose(t, s) ==
  /\ MayStart(t, "close", s)
  /\ calls' = calls + 1
  /\ LET r == close([IdleTask EXCEPT !.op = "close", !.name = s], heap, s, "done")
     IN  Step(clients, order, r.heap, Disturb([task EXCEPT ![t] = r.rec], t))
  /\ UNCHANGED <<tokenCache, now, servers, pin, pout>>

\* entry.transport.close() returned or threw (ignored):
\* this.clients.delete(serverName).
closeFinish(t, threw, next) ==
  LET rec == [task[t] EXCEPT !.threw = @ \/ threw]
  IN  Step([clients EXCEPT ![rec.name] = NoEntry],
           MapDeleteOrder(rec.name),
           heap,
           ShiftIterators([task EXCEPT ![t] = IF next = "done" THEN Done(rec)
                                              ELSE [rec EXCEPT !.pc = next]],
                          rec.name))

\* A variant of close that forgets the server's cached token as well.
ClosingDoneForgettingToken(t, threw) ==
  /\ Settled
  /\ task[t].pc = "closing"
  /\ closeFinish(t, threw, "done")
  /\ tokenCache' = [tokenCache EXCEPT ![task[t].name] = <<>>]
  /\ UNCHANGED <<now, calls, servers, pin, pout>>

\* A variant of close that lets the transport's failure out.
ClosingDoneRaising(t, threw) ==
  /\ Settled
  /\ task[t].pc = "closing"
  /\ IF threw
     THEN Step(clients, order, heap,
               [task EXCEPT ![t] = Throws([@ EXCEPT !.threw = TRUE], "close",
                                          {"close failed"})])
     ELSE closeFinish(t, threw, "done")
  /\ UNCHANGED <<tokenCache, now, calls, servers, pin, pout>>

ClosingDone(t, threw) ==
  /\ Settled
  /\ task[t].pc = "closing"
  /\ closeFinish(t, threw, "done")
  /\ UNCHANGED <<tokenCache, now, calls, servers, pin, pout>>

\* for (const name of this.clients.keys()) await this.close(name): one turn
\* of the loop, from the iterator's next() to close's suspension.
closeAllNext(rec, h) ==
  IF rec.it < Len(order)
  THEN close([rec EXCEPT !.it = @ + 1], h, order[rec.it + 1], "canext")
  ELSE [rec |-> Done(rec), heap |-> h]

StartCloseAll(t) ==
  /\ MayStart(t, "closeAll", "")
  /\ calls' = calls + 1
  /\ LET rec0 == [IdleTask EXCEPT !.op = "closeAll",
                                  !.alone = \A u \in Tasks \ {t} : Free(u),
                                  !.snap = {clients[s] : s \in Servers} \ {NoEntry}]
         r == closeAllNext(rec0, heap)
     IN  Step(clients, order, r.heap, Disturb([task EXCEPT ![t] = r.rec], t))
  /\ UNCHANGED <<tokenCache, now, servers, pin, pout>>

\* A variant of closeAll that stops at the first close that throws.
CaClosingDoneStopping(t, threw) ==
  /\ Settled
  /\ task[t].pc = "caclosing"
  /\ IF threw
     THEN Step(clients, order, heap, [task EXCEPT ![t] = Done([@ EXCEPT !.threw = TRUE])])
     ELSE closeFinish(t, threw, "canext")
  /\ UNCHANGED <<tokenCache, now, calls, servers, pin, pout>>

CaClosingDone(t, threw) ==
  /\ Settled
  /\ task[t].pc = "caclosing"
  /\ closeFinish(t, threw, "canext")
  /\ UNCHANGED <<tokenCache, now, calls, servers, pin, pout>>

CaNext(t) ==
  /\ Settled
  /\ task[t].pc = "canext"
  /\ LET r == closeAllNext(task[t], heap)
     IN  Step(clients, order, r.heap, [task EXCEPT ![t] = r.rec])
  /\ UNCHANGED <<tokenCache, now, calls, servers, pin, pout>>

\* ------------------------------------------------- hooks, status, clock
\* A variant of the hook that marks nothing.
markNothing(h, s) == h

markDisconnected(h, s) ==
  IF clients[s] # NoEntry THEN [h EXCEPT ![clients[s]].connected = FALSE] ELSE h

\* transport.onerror / transport.onclose of a subprocess transport.  The
\* close notification of a transport whose close() was called is its last.
Fire(tid) ==
  /\ Settled
  /\ heap[tid].hooks
  /\ LET h == markDisconnected(heap, heap[tid].srv)
     IN  Step(clients, order,
              [h EXCEPT ![tid].hooks = ~heap[tid].closeCalled], task)
  /\ UNCHANGED <<tokenCache, now, calls, servers, pin, pout>>

getStatus(s) ==
  IF clients[s] # NoEntry THEN heap[clients[s]].connected ELSE FALSE

\* The pool reads the clock only to stamp and to age a cached token: time
\* is let pass only while a token is cached or being fetched.
Tick ==
  /\ Settled
  /\ \/ \E s \in Servers : tokenCache[s] # <<>>
     \/ \E t \in Tasks : task[t].pc = "tokencmd"
  /\ now < MaxTicks * TickMs
  /\ now' = now + TickMs
  /\ UNCHANGED <<clients, order, heap, tokenCache, task, calls, servers, pin, pout>>

\* The caller takes the outcome of a completed call.
Return(t) ==
  /\ task[t].pc = "done"
  /\ Step(clients, order, heap, [task EXCEPT ![t] = IdleTask])
  /\ UNCHANGED <<tokenCache, now, calls, servers, pin, pout>>

Next ==
  \/ \E t \in Tasks : Return(t)
  \/ \E t \in Tasks, s \in servers : StartConnect(t, s)
  \/ \E t \in Tasks : TokenCmdFail(t)
  \/ \E t \in Tasks, out \in TokenOutputs : TokenCmdExit(t, out)
  \/ \E t \in Tasks : EstablishOk(t)
  \/ \E t \in Tasks, msg \in ConnectErrMsgs : EstablishFail(t, msg)
  \/ \E t \in Tasks, threw \in BOOLEAN : RetryCloseDone(t, threw)
  \/ \E t \in Tasks, s \in servers : StartListTools(t, s)
  \/ \E t \in Tasks, s \in servers : StartCallTool(t, s)
  \/ \E t \in Tasks : Op1Ok(t)
  \/ \E t \in Tasks, msg \in ErrMsgs : Op1Fail(t, msg)
  \/ \E t \in Tasks, threw \in BOOLEAN : RcCloseDone(t, threw)
  \/ \E t \in Tasks : Relookup(t)
  \/ \E t \in Tasks : Op2Ok(t)
  \/ \E t \in Tasks, msg \in RetryErrMsgs : Op2Fail(t, msg)
  \/ \E t \in Tasks, s \in servers : StartClose(t, s)
  \/ \E t \in Tasks, threw \in BOOLEAN : ClosingDone(t, threw)
  \/ \E t \in Tasks : StartCloseAll(t)
  \/ \E t \in Tasks, threw \in BOOLEAN : CaClosingDone(t, threw)
  \/ \E t \in Tasks : CaNext(t)
  \/ \E tid \in Tids : Fire(tid)
  \/ Tick

Spec == Init /\ [][Next]_vars

\* Whatever a call awaits settles: the session operation, the establishment,
\* the transport's close and the token command return or fail, and the
\* caller takes the outcome.
Advance(t) ==
  \/ Return(t)
  \/ TokenCmdFail(t)
  \/ \E out \in TokenOutputs : TokenCmdExit(t, out)
  \/ EstablishOk(t)
  \/ \E msg \in ConnectErrMsgs : EstablishFail(t, msg)
  \/ \E threw \in BOOLEAN : RetryCloseDone(t, threw)
  \/ Op1Ok(t)
  \/ \E msg \in ErrMsgs : Op1Fail(t, msg)
  \/ \E threw \in BOOLEAN : RcCloseDone(t, threw)
  \/ Relookup(t)
  \/ Op2Ok(t)
  \/ \E msg \in RetryErrMsgs : Op2Fail(t, msg)
  \/ \E threw \in BOOLEAN : ClosingDone(t, threw)
  \/ \E threw \in BOOLEAN : CaClosingDone(t, threw)
  \/ CaNext(t)

SpecFair == Spec /\ \A t \in Tasks : WF_vars(Advance(t))

\* --------------------------------------------- token extraction, alone
\* The lines a refresh command may print.
ExtractLines ==
  { <<>>,
    <<Word("noise")>>,
    <<Null>>,
    <<LB, StrPair("access_token", "A"), RB>>,
    <<LB, StrPair("token", "T"), Comma, StrPair("bearer", "B"), RB>>,
    <<LB, StrPair("access_token", ""), Comma, StrPair("token", "T2"), RB>>,
    <<LB, NumPair("access_token", "7"), Comma, StrPair("bearer", "B2"), RB>>,
    <<LB, StrPair("other", "x"), RB>>,
    <<LB>>,
    <<StrPair("token", "W")>>,
    <<RB>> }

RawOutputs == UNION { [1..n -> ExtractLines] : n \in 0..MaxLines }

InitExtract ==
  /\ servers = {"auth"}
  /\ Constructed
  /\ now = 0
  /\ task = [t \in Tasks |-> IdleTask]
  /\ calls = 0
  /\ pin \in RawOutputs
  /\ pout = <<>>

\* execFile's callback on a zero exit with standard output pin.
Callback ==
  /\ pout = <<>>
  /\ pout' = <<tokenCallback(pin)>>
  /\ UNCHANGED <<clients, order, heap, tokenCache, now, task, calls, servers, pin>>

SpecExtract == InitExtract /\ [][Callback]_vars

\* ================================================================ claims
ToolCall(t) == task[t].op = "tool"
ConfigOf(t) == ServerConfigs[task[t].name]
FailedAuth(t) == task[t].err1 # <<>> /\ isAuthError(task[t].err1[1])
FailedConn(t) == task[t].err1 # <<>> /\ isConnectionError(task[t].err1[1])

\* The first session operation of a listTools/callTool failed and the
\* forced-refresh path applies.
ForcedCase(t) == ToolCall(t) /\ usesAuthTokenCommand(ConfigOf(t)) /\ FailedAuth(t)

\* ... and the plain-reconnect path applies.
PlainCase(t) ==
  /\ ToolCall(t)
  /\ task[t].err1 # <<>>
  /\ ~(usesAuthTokenCommand(ConfigOf(t)) /\ FailedAuth(t))
  /\ task[t].unhealthy \/ FailedConn(t)

\* How a call that took a recovery path may stand: one reconnect, at most
\* one retried operation, and at its end one of: the retried operation's
\* result; the reconnect's failure (no retried operation); no entry to retry
\* on (no retried operation).
RecoveredOnce(t) ==
  /\ task[t].nReconn = 1
  /\ task[t].nOps \in {1, 2}
  /\ task[t].pc \in {"rcclose", "tokencmd", "retryclose", "establish", "relookup",
                     "op2", "done"}
  /\ task[t].pc \in {"rcclose", "tokencmd", "retryclose", "establish", "relookup"}
       => task[t].nOps = 1
  /\ task[t].pc = "op2" => task[t].nOps = 2 /\ task[t].target # NoEntry
  /\ task[t].pc = "done" =>
       \/ task[t].res = "ok" /\ task[t].nOps = 2
       \/ task[t].res = "err" /\ task[t].origin = "op2" /\ task[t].nOps = 2
       \/ task[t].res = "err" /\ task[t].origin \in {"tokencmd", "establish"}
                              /\ task[t].nOps = 1
       \/ task[t].res = "err" /\ task[t].origin = "typeerror" /\ task[t].nOps = 1

\* C1 as stated: after an auth-classified failure on an auth-capable server
\* the finished call has made exactly one forced reconnect and exactly one
\* retried session operation, whose failure, if any, is the call's.
C1_AsStated ==
  \A t \in Tasks :
    ForcedCase(t) /\ task[t].pc = "done" =>
      /\ task[t].nReconn = 1 /\ task[t].force
      /\ task[t].nOps = 2
      /\ task[t].res = "err" => task[t].origin = "op2"

\* C1 (amended): after an auth-classified failure of the session operation on
\* an auth-capable server, the call makes exactly one reconnect, with forced
\* refresh and no second session establishment inside it, and at most one
\* retried operation: exactly one once the reconnect has returned and the
\* registry holds an entry; a failed reconnect propagates with no retried
\* operation, a failed retried operation propagates, and there is never a
\* third operation or a second reconnect.
C1_ForcedRecoveryOnce ==
  \A t \in Tasks :
    ForcedCase(t) =>
      /\ RecoveredOnce(t)
      /\ task[t].force
      /\ task[t].attempt <= 1
      /\ task[t].pc # "retryclose"

\* C1's case: the retried operation failed too and its failure is the call's.
C1_Witness ==
  \E t \in Tasks :
    /\ ForcedCase(t)
    /\ task[t].pc = "done" /\ task[t].res = "err" /\ task[t].origin = "op2"
    /\ task[t].nOps = 2 /\ task[t].nReconn = 1

\* C2 as stated: on the plain path the finished call has reconnected once
\* without forced refresh and retried the operation exactly once.
C2_AsStated ==
  \A t \in Tasks :
    PlainCase(t) /\ task[t].pc = "done" =>
      task[t].nReconn = 1 /\ ~task[t].force /\ task[t].nOps = 2

\* C2 (amended): when the forced path does not apply and the entry was
\* unhealthy or the failure is connection-classified, the call makes exactly
\* one reconnect, without forced refresh, and at most one retried operation:
\* exactly one once the reconnect has returned and the registry holds an
\* entry, and then against that entry; a failed reconnect propagates with no
\* retried operation.  A failure that is both auth- and connection-classified
\* on an auth-capable server takes the forced path.
C2_PlainRecoveryOnce ==
  /\ [](\A t \in Tasks :
          /\ PlainCase(t) => RecoveredOnce(t) /\ ~task[t].force
          /\ ForcedCase(t) /\ FailedConn(t) => task[t].force /\ task[t].nReconn = 1)
  /\ [][\A t \in Tasks :
          task[t].pc = "relookup" /\ task'[t].pc = "op2" =>
            /\ task'[t].target = clients[task[t].name]
            /\ clients[task[t].name] # NoEntry]_vars

\* C2's case: an unhealthy entry and an unclassified failure, retried on the
\* entry the reconnect installed.
C2_Witness ==
  \E t \in Tasks :
    /\ PlainCase(t) /\ task[t].unhealthy /\ ~FailedConn(t)
    /\ task[t].pc = "op2" /\ task[t].target = clients[task[t].name]
    /\ task[t].target # task[t].entry

\* C3: a failure of the first session operation that is neither
\* auth-classified on an auth-capable server nor connection-classified, on a
\* healthy entry, ends the call at once with that failure: one operation, no
\* reconnect, no fetch, and registry, transports and token cache as before.
C3_UnclassifiedPropagates ==
  [][\A t \in Tasks :
       ( /\ task[t].pc = "op1" /\ task'[t].pc # "op1" /\ task'[t].err1 # <<>>
         /\ ~(usesAuthTokenCommand(ConfigOf(t)) /\ isAuthError(task'[t].err1[1]))
         /\ ~isConnectionError(task'[t].err1[1])
         /\ heap[task[t].entry].connected )
       => /\ task'[t].pc = "done" /\ task'[t].res = "err"
          /\ task'[t].origin = "op1" /\ task'[t].err = task'[t].err1[1]
          /\ task'[t].nOps = 1 /\ task'[t].nReconn = 0 /\ task'[t].nFetch = 0
          /\ task'[t].tr = NoEntry
          /\ UNCHANGED <<clients, order, heap, tokenCache>>]_vars

C3_Witness ==
  \E t \in Tasks :
    /\ ToolCall(t) /\ task[t].pc = "done" /\ task[t].origin = "op1"
    /\ task[t].err = {"tool failed"} /\ ~task[t].unhealthy
    /\ task[t].nOps = 1 /\ task[t].nReconn = 0

\* C4: for a server with no refresh command configured, and for every
\* subprocess server, no call is ever in a connect with forced refresh, in
\* the second establishment attempt of a connect or in a credential fetch,
\* and no token is cached for it; an auth-classified failure of a
\* listTools/callTool on it is recovered (without forced refresh) only when
\* the entry was unhealthy or the failure is connection-classified too, and
\* propagates at once otherwise.
NoRefresh(s) ==
  ~ServerConfigs[s].authTokenCommand \/ ServerConfigs[s].transport = "stdio"

C4_NoForcedRefreshWithoutCommand ==
  /\ \A s \in Servers : NoRefresh(s) => tokenCache[s] = <<>>
  /\ \A t \in Tasks :
       task[t].name \in Servers /\ NoRefresh(task[t].name) =>
         /\ ~task[t].force
         /\ task[t].attempt <= 1
         /\ task[t].nFetch = 0
         /\ task[t].pc \notin {"tokencmd", "retryclose"}
         /\ ToolCall(t) /\ FailedAuth(t) =>
              IF task[t].unhealthy \/ FailedConn(t)
              THEN task[t].nReconn = 1
              ELSE task[t].nReconn = 0 /\ task[t].pc = "done" /\ task[t].origin = "op1"

\* C4's case: an auth-classified failure on the subprocess server (which has
\* a refresh command configured) propagated.
C4_Witness ==
  \E t \in Tasks :
    /\ ToolCall(t) /\ task[t].name = "proc" /\ FailedAuth(t)
    /\ task[t].pc = "done" /\ task[t].origin = "op1" /\ task[t].nReconn = 0

\* C5: a credential fetch that is not forced, made while the server's cache
\* entry exists and now - fetchedAt < ttl, returns the cached token, leaves
\* the cache as it is and starts no command; a forced fetch starts the
\* command whatever the entry's age, and so does a fetch that is not forced
\* with no entry or a stale one.
Fetches(t) == task'[t].nFetch = task[t].nFetch + 1

C5_CachePolicy ==
  [][\A t \in Tasks :
       Fetches(t) =>
         LET s == task'[t].name
             forceRefresh == task'[t].force \/ task'[t].attempt = 2
             cache == tokenCache[s]
             fresh == cache # <<>> /\
                      now - cache[1].fetchedAtMs < getTokenTtlMs(ServerConfigs[s])
         IN  IF ~forceRefresh /\ fresh
             THEN /\ task'[t].pc = "establish"
                  /\ task'[t].hit
                  /\ task'[t].tok = cache[1].token
                  /\ tokenCache' = tokenCache
             ELSE /\ task'[t].pc = "tokencmd"
                  /\ ~task'[t].hit
                  /\ tokenCache' = tokenCache]_vars

\* C5's case: a connect answered from the cache.
C5_Witness ==
  \E t \in Tasks :
    /\ task[t].pc = "establish" /\ task[t].hit /\ task[t].nFetch = 1
    /\ tokenCache[task[t].name] # <<>>
    /\ task[t].tok = tokenCache[task[t].name][1].token

\* C6: close(name) never raises.  Started on a name with no entry it
\* completes at once and leaves registry, transports and token cache as they
\* are (so a second close right after a first changes nothing); started on a
\* registered name it calls the transport's close and, whether that returns
\* or throws, removes the entry; a close leaves the token cache alone.
C6_CloseNeverRaises ==
  /\ [](\A t \in Tasks :
          task[t].op = "close" /\ task[t].pc = "done" =>
            task[t].res = "ok" /\ clients[task[t].name] = NoEntry)
  /\ [][\A t \in Tasks :
          /\ (Free(t) /\ task'[t].op = "close") =>
               IF clients[task'[t].name] = NoEntry
               THEN /\ task'[t].pc = "done" /\ task'[t].res = "ok"
                    /\ UNCHANGED <<clients, order, heap, tokenCache>>
               ELSE /\ task'[t].pc = "closing"
                    /\ task'[t].entry = clients[task'[t].name]
                    /\ heap'[task'[t].entry].closeCalled
                    /\ UNCHANGED <<clients, order, tokenCache>>
          /\ (task[t].pc = "closing" /\ task'[t].pc # "closing") =>
               /\ task'[t].pc = "done" /\ task'[t].res = "ok"
               /\ clients' = [clients EXCEPT ![task[t].name] = NoEntry]
               /\ tokenCache' = tokenCache]_vars

\* C6's case: the transport's close threw and the entry is gone all the same.
C6_Witness ==
  \E t \in Tasks :
    /\ task[t].op = "close" /\ task[t].pc = "done" /\ task[t].res = "ok"
    /\ task[t].threw /\ task[t].entry # NoEntry
    /\ clients[task[t].name] = NoEntry

\* C7: a closeAll that ran with no other call in flight ends without raising,
\* with the registry empty and with close called on the transport of every
\* server that was registered when it started, whichever of those closes
\* threw.
C7_CloseAllAlone ==
  \A t \in Tasks :
    task[t].op = "closeAll" /\ task[t].pc = "done" /\ task[t].alone =>
      /\ task[t].res = "ok"
      /\ \A s \in Servers : clients[s] = NoEntry
      /\ order = <<>>
      /\ \A tid \in task[t].snap : heap[tid].closeCalled

\* C7's case: two registered servers, a close that threw.
C7_Witness ==
  \E t \in Tasks :
    /\ task[t].op = "closeAll" /\ task[t].pc = "done" /\ task[t].alone
    /\ Cardinality(task[t].snap) = 2 /\ task[t].threw
    /\ \A s \in Servers : clients[s] = NoEntry

\* C8: getStatus(name) is connected exactly when the registry has an entry
\* for name whose health flag is true (not connected without an entry); and
\* the error/close hook of the current entry's subprocess transport leaves
\* getStatus(name) not connected in the very step it fires, with no call
\* started or advanced.
C8_StatusFollowsHooks ==
  /\ [](\A s \in Servers :
          getStatus(s) = (clients[s] # NoEntry /\ heap[clients[s]].connected))
  /\ [][\A tid \in Tids :
          (Fire(tid) /\ clients[heap[tid].srv] = tid) =>
            /\ ~getStatus(heap[tid].srv)'
            /\ UNCHANGED <<clients, task, calls>>]_vars

\* C8's case: a registered subprocess server reported not connected.
C8_Witness ==
  /\ clients["proc"] # NoEntry
  /\ heap[clients["proc"]].hooks
  /\ ~getStatus("proc")
  /\ \A t \in Tasks : Free(t)

\* C9: a listTools/callTool started while the registry has no entry for the
\* name ends at once with the unknown-server error: no session operation, no
\* reconnect, no credential fetch, no transport built, and registry,
\* transports and token cache as before.
C9_UnknownServer ==
  [][\A t \in Tasks :
       (Free(t) /\ task'[t].op = "tool" /\ clients[task'[t].name] = NoEntry) =>
         /\ task'[t].pc = "done" /\ task'[t].res = "err"
         /\ task'[t].origin = "unknown" /\ task'[t].err = {"Unknown server"}
         /\ task'[t].nOps = 0 /\ task'[t].nReconn = 0 /\ task'[t].nFetch = 0
         /\ task'[t].tr = NoEntry
         /\ UNCHANGED <<clients, order, heap, tokenCache>>]_vars

C9_Witness ==
  \E t \in Tasks :
    /\ task[t].op = "tool" /\ task[t].pc = "done" /\ task[t].origin = "unknown"
    /\ clients[task[t].name] = NoEntry /\ task[t].nOps = 0

\* ------------------------------------------- C10, under SpecExtract
\* The lookup the claim describes on one text: the first of access_token,
\* token, bearer that is a string field of the object (non-empty where
\* `nonEmpty`), or <<>>.
ClaimedField(lx, nonEmpty) ==
  LET parsed == JsonParse(lx)
      present == {i \in 1..Len(TokenKeys) :
                    /\ parsed.kind = "object"
                    /\ Member(parsed, TokenKeys[i]) # <<>>
                    /\ Member(parsed, TokenKeys[i])[1].s
                    /\ nonEmpty => Member(parsed, TokenKeys[i])[1].v # ""}
      first == CHOOSE i \in present : \A j \in present : i <= j
  IN  IF present = {} THEN <<>> ELSE <<Word(Member(parsed, TokenKeys[first])[1].v)>>

ClaimedOutcome(out, nonEmpty) ==
  LET lines == SelectSeq(out, LAMBDA l : l # <<>>)
      hits == {i \in 1..Len(lines) : ClaimedField(lines[i], nonEmpty) # <<>>}
      last == CHOOSE i \in hits : \A j \in hits : j <= i
  IN  IF lines = <<>> THEN [ok |-> FALSE, token |-> <<>>, error |-> "empty output"]
      ELSE [ok |-> TRUE, error |-> "",
            token |-> IF hits # {} THEN ClaimedField(lines[last], nonEmpty)
                      ELSE IF ClaimedField(Flatten(out), nonEmpty) # <<>>
                        THEN ClaimedField(Flatten(out), nonEmpty)
                      ELSE lines[Len(lines)]]

\* C10 as stated: the token is the highest-priority string field of the last
\* line that is a JSON object with such a field, else that of the whole
\* output, else the last non-empty line; no non-empty line is the
\* empty-output error.
C10_AsStated == pout # <<>> => pout[1] = ClaimedOutcome(pin, FALSE)

\* C10 (amended): the same with "string field" read as "non-empty string
\* field": a field holding the empty string counts as absent, in the
\* priority within an object, in the choice of the line and in the
\* whole-output lookup.
C10_TokenExtraction == pout # <<>> => pout[1] = ClaimedOutcome(pin, TRUE)

\* C10's case: the last line is no JSON, the one before has an empty
\* access_token and a token, the first has a token too.
C10_Witness ==
  /\ pin = << <<LB, StrPair("token", "T"), Comma, StrPair("bearer", "B"), RB>>,
              <<LB, StrPair("access_token", ""), Comma, StrPair("token", "T2"), RB>>,
              <<Word("noise")>> >>
  /\ pout # <<>>
  /\ pout[1].ok /\ pout[1].token = <<Word("T2")>>

\* ------------------------------------------------- C11, under SpecFair
\* C11: a listTools/callTool call never makes more than one reconnect nor
\* more than two session operations, and, everything it awaits settling,
\* every such call in flight eventually completes, with a result or a
\* failure.
C11_CallsComplete ==
  /\ [](\A t \in Tasks : ToolCall(t) => task[t].nReconn <= 1 /\ task[t].nOps <= 2)
  /\ \A t \in Tasks :
       (ToolCall(t) /\ task[t].pc # "done") ~> (ToolCall(t) /\ task[t].pc = "done")

\* C11's case: a call that completed after its one reconnect and its second
\* operation.
C11_Witness ==
  \E t \in Tasks :
    /\ ToolCall(t) /\ task[t].pc = "done" /\ task[t].res = "ok"
    /\ task[t].nReconn = 1 /\ task[t].nOps = 2 /\ task[t].unhealthy

\* C12: connect goes to a second establishment attempt only from a failed
\* first attempt, on a server that uses credential-refresh auth, after an
\* auth-classified failure, and when not called with forced refresh; it then
\* calls close on the transport just built and, whether that close returns or
\* throws, builds the second transport with a forced credential fetch.  A
\* second attempt is never followed by a third, and every failure that is
\* not retried, the second attempt's included, is the connect's failure,
\* unchanged.
C12_ConnectRetriesOnce ==
  /\ [](\A t \in Tasks : task[t].attempt <= 2)
  /\ [][\A t \in Tasks :
          /\ (task[t].pc = "establish" /\ task'[t].pc = "retryclose") =>
               /\ task[t].attempt = 1
               /\ ServerConfigs[task[t].name].transport = "http"
               /\ ServerConfigs[task[t].name].authTokenCommand
               /\ ~task[t].force
               /\ isAuthError(task'[t].err)
               /\ task'[t].tr = task[t].tr
               /\ heap'[task[t].tr].closeCalled
               /\ \A i \in Tids : heap'[i].built => heap[i].built
               /\ UNCHANGED <<clients, order>>
          /\ (task[t].pc = "retryclose" /\ task'[t].pc # "retryclose") =>
               /\ task'[t].attempt = 2
               /\ Fetches(t)
               /\ task'[t].pc = "tokencmd"
          /\ (task[t].pc = "establish" /\ task[t].attempt = 2) =>
               task'[t].pc # "retryclose"
          /\ (task[t].pc = "establish" /\ task'[t].pc = "done" /\ task'[t].res = "err") =>
               /\ task'[t].origin = "establish"
               /\ task'[t].err \in ConnectErrMsgs
               /\ \/ task[t].attempt = 2
                  \/ task[t].force
                  \/ ~isAuthError(task'[t].err)
                  \/ ServerConfigs[task[t].name].transport # "http"
                  \/ ~ServerConfigs[task[t].name].authTokenCommand
               /\ UNCHANGED <<clients, order>>]_vars

\* C12's case: the second attempt failed and its failure is the connect's.
C12_Witness ==
  \E t \in Tasks :
    /\ task[t].op = "connect" /\ task[t].attempt = 2
    /\ task[t].pc = "done" /\ task[t].res = "err" /\ task[t].origin = "establish"

\* C13: a reconnect of a registered server calls close on the transport of
\* the entry it finds and builds nothing until that close has settled;
\* whether the close returned or threw, the connect follows; and when the
\* connect succeeds the registry's entry for the name holds the new
\* transport, established, not closed, with the health flag true.
C13_ReconnectReplaces ==
  /\ [](\A t \in Tasks : task[t].pc = "rcclose" => heap[task[t].tr].closeCalled)
  /\ [][\A t \in Tasks :
          /\ (task[t].pc = "op1" /\ task'[t].pc = "rcclose") =>
               /\ clients[task[t].name] # NoEntry
               /\ task'[t].tr = clients[task[t].name]
               /\ heap'[task'[t].tr].closeCalled
               /\ \A i \in Tids : heap'[i].built => heap[i].built
               /\ UNCHANGED <<clients, order>>
          /\ (task[t].pc = "rcclose" /\ task'[t].pc # "rcclose") =>
               /\ task'[t].pc \in {"tokencmd", "establish"}
               /\ task'[t].pc = "establish" =>
                    /\ task'[t].tr # task[t].tr
                    /\ ~heap[task'[t].tr].built
                    /\ heap'[task'[t].tr].built /\ ~heap'[task'[t].tr].est
               /\ UNCHANGED <<clients, order>>
          /\ (ToolCall(t) /\ task[t].pc = "establish" /\ task'[t].pc = "relookup") =>
               /\ clients' = [clients EXCEPT ![task[t].name] = task[t].tr]
               /\ heap'[task[t].tr].est
               /\ heap'[task[t].tr].connected
               /\ ~heap'[task[t].tr].closeCalled
               /\ getStatus(task[t].name)']_vars

\* C13's case: the old transport's close threw and the new transport is
\* being established.
C13_Witness ==
  \E t \in Tasks :
    /\ ToolCall(t) /\ task[t].nReconn = 1 /\ task[t].pc = "establish"
    /\ task[t].threw /\ task[t].attempt = 1
    /\ clients[task[t].name] # NoEntry
    /\ heap[clients[task[t].name]].closeCalled

\* An established transport that the pool has not closed and that no
\* registry entry holds.
Orphaned(tid) ==
  /\ heap[tid].built /\ heap[tid].est /\ ~heap[tid].closeCalled
  /\ clients[heap[tid].srv] # tid

\* C14: the registry's entry for a name is whatever the last successful
\* connect wrote: that connect overwrites the entry it finds and leaves the
\* transport of the overwritten entry as it is; and an established, unclosed
\* transport that no registry entry holds stays so for as long as it exists
\* (nothing closes it, nothing registers it again).  So when two reconnects
\* for one name overlap and both establish, the transport of the one that
\* wrote first is orphaned for good.
C14_LastWriteWins ==
  [][/\ \A t \in Tasks :
          (task[t].pc = "establish" /\ task'[t].pc \in {"relookup", "done"}
                                    /\ task'[t].res # "err") =>
            /\ clients' = [clients EXCEPT ![task[t].name] = task[t].tr]
            /\ LET old == clients[task[t].name]
               IN  (old # NoEntry /\ heap'[old].built) =>
                     heap'[old].closeCalled = heap[old].closeCalled
     /\ \A tid \in Tids :
          (Orphaned(tid) /\ heap'[tid].built) => Orphaned(tid)']_vars

\* C14's case: two overlapping calls on one name have both reconnected and
\* established; the registry holds the transport of one, the other's is
\* orphaned.
C14_Witness ==
  \E t, u \in Tasks :
    /\ t # u /\ ToolCall(t) /\ ToolCall(u) /\ task[t].name = task[u].name
    /\ task[t].nReconn = 1 /\ task[u].nReconn = 1
    /\ task[t].pc = "relookup" /\ task[u].pc = "relookup"
    /\ task[t].tr # task[u].tr
    /\ heap[task[t].tr].est /\ heap[task[u].tr].est
    /\ clients[task[t].name] = task[u].tr
    /\ Orphaned(task[t].tr)

\* C15: the token cache changes only in the step in which a token command
\* that a call awaits yields a token, and then only in that server's entry,
\* which becomes that token under the time read before the command ran; a
\* fetch that fails, and the start of any fetch (answered from the cache or
\* not), leave the whole cache as it is; and no step removes an entry.
C15_TokenCacheFrame ==
  [][/\ \A s \in Servers : tokenCache[s] # <<>> => tokenCache'[s] # <<>>
     /\ tokenCache' # tokenCache =>
          \E t \in Tasks :
            /\ task[t].pc = "tokencmd" /\ task'[t].pc = "establish"
            /\ tokenCache' = [tokenCache EXCEPT ![task[t].name] =
                                <<[token |-> task'[t].tok,
                                   fetchedAtMs |-> task[t].nowAt]>>]
     /\ \A t \in Tasks :
          /\ (task[t].pc = "tokencmd" /\ task'[t].pc = "done") =>
               /\ task'[t].res = "err" /\ task'[t].origin = "tokencmd"
               /\ tokenCache' = tokenCache
          /\ Fetches(t) => tokenCache' = tokenCache]_vars

\* C15's case: a fetch that failed on empty output while a token was cached.
C15_Witness ==
  \E t \in Tasks :
    /\ task[t].pc = "done" /\ task[t].origin = "tokencmd"
    /\ task[t].err = {"empty output"}
    /\ tokenCache[task[t].name] # <<>>

\* C16: a notification from a subprocess transport that is not the one the
\* registry entry for its server holds leaves that entry's health flag as it
\* is.
C16_StaleHookIsIgnored ==
  [][\A tid \in Tids :
       (heap[tid].hooks /\ Fire(tid) /\ clients[heap[tid].srv] \notin {NoEntry, tid}) =>
         heap'[clients[heap[tid].srv]].connected = heap[clients[heap[tid].srv]].connected]_vars

\* C16's failing case: the registry holds a new, healthy-built entry that a
\* replaced transport's notification marked unhealthy.
C16_StaleHookMarked ==
  \E tid \in Tids :
    LET cur == clients[heap[tid].srv]
    IN  /\ heap[tid].built /\ heap[tid].est /\ heap[tid].closeCalled
        /\ ~heap[tid].hooks
        /\ cur # NoEntry /\ cur # tid
        /\ heap[cur].hooks /\ ~heap[cur].closeCalled /\ ~heap[cur].connected

\* C17: whenever getStatus(name) reports connected, the pool has not called
\* close on the transport of the registry entry for name.
C17_ConnectedMeansOpen ==
  \A s \in Servers :
    getStatus(s) => ~heap[clients[s]].closeCalled

\* C17's failing case: no call is in flight, a reconnect's connect has
\* failed after the old transport was closed, and the server is reported
\* connected on the entry that holds the closed transport.
C17_StaleEntryReported ==
  \E s \in Servers :
    /\ \A t \in Tasks : Free(t)
    /\ ServerConfigs[s].transport = "http"
    /\ getStatus(s)
    /\ heap[clients[s]].closeCalled

\* C18: a listTools/callTool call that fails does so with the
\* unknown-server error, with the failure of its first session operation,
\* with the failure of its reconnect (token command or establishment), or
\* with the failure of its retried operation.
C18_OnlyNamedFailures ==
  \A t \in Tasks :
    (ToolCall(t) /\ task[t].pc = "done" /\ task[t].res = "err") =>
      task[t].origin \in {"unknown", "op1", "tokencmd", "establish", "op2"}

\* C18's failing case: the entry was removed while the first operation was
\* pending, the operation failed with a recoverable classification, the
\* reconnect found no entry, and the call failed on reading the missing one.
C18_MissingEntryFailure ==
  \E t \in Tasks :
    /\ ToolCall(t) /\ task[t].pc = "done" /\ task[t].res = "err"
    /\ task[t].origin = "typeerror"
    /\ task[t].nReconn = 1 /\ task[t].nOps = 1 /\ task[t].nFetch = 0
    /\ task[t].tr = NoEntry
    /\ clients[task[t].name] = NoEntry

\* C19: a name without a registry entry gets one only from a connect call
\* for that name: a listTools/callTool call never installs an entry for a
\* name that has none (as after a close that ran during its recovery).
C19_ClosedStaysClosed ==
  [][\A s \in Servers :
       (clients[s] = NoEntry /\ clients'[s] # NoEntry) =>
         \E t \in Tasks :
           task[t].op = "connect" /\ task[t].name = s /\ task[t].pc = "establish"]_vars

\* C19's failing case: a call's reconnect installed an entry for a server
\* that a close had removed meanwhile (the name moved to the end of the
\* registry's order), with its transport live.
C19_ReopenedByRecovery ==
  \E t \in Tasks :
    /\ ToolCall(t) /\ task[t].name = "plain" /\ task[t].nReconn = 1
    /\ task[t].pc = "relookup"
    /\ \A u \in Tasks \ {t} : Free(u)
    /\ order = <<"proc", "plain">>
    /\ clients["plain"] = task[t].tr
    /\ heap[task[t].tr].est /\ ~heap[task[t].tr].closeCalled

\* C20: when a connect has failed in establishing a session, close has been
\* called on the transport it built last (and, through C12, on the one it
\* built before), so that no transport of a failed connect is left built
\* and unclosed.
C20_FailedConnectClosesTransports ==
  \A t \in Tasks :
    (task[t].pc = "done" /\ task[t].res = "err" /\ task[t].origin = "establish") =>
      heap[task[t].tr].closeCalled

\* C20's failing case: a connect whose forced-refresh second attempt failed
\* ended with its second transport built and close never called on it.
C20_UnclosedAfterFailure ==
  \E t \in Tasks :
    /\ task[t].op = "connect" /\ task[t].attempt = 2
    /\ task[t].pc = "done" /\ task[t].res = "err" /\ task[t].origin = "establish"
    /\ heap[task[t].tr].built /\ ~heap[task[t].tr].closeCalled
    /\ clients[task[t].name] # task[t].tr
====
